---- MODULE Spec2Model ----
(***************************************************************************)
(* Model of scrape_sp500.py: the fetch / clean / analyze / persist         *)
(* pipeline for S&P 500 daily OHLCV data.                                  *)
(*                                                                         *)
(* A data frame is a record [kind |-> "df", columns, rows]: columns is the *)
(* sequence of column labels, rows is a sequence of [date, cells] where    *)
(* date is a day number (the index) and cells[i] is the value under        *)
(* columns[i].  Python's None is the record None.                          *)
(***************************************************************************)
EXTENDS Integers, Sequences, FiniteSets, TLC

VARIABLES
    entry,        \* the function the caller invokes
    resp,         \* what yf.download produces in this run
    arg,          \* the data argument of a direct analyze / save call
    filename,     \* the filename argument of save_data
    fs0,          \* the file system before the call
    fs,           \* the file system
    pc,           \* position of the call: start, fetched, analyzed, saved,
                  \* done (returned), crashed (an exception left the call)
    sp500_ohlcv,  \* main's local holding the fetch result
    files_ret,    \* what save_data returned to main
    result,       \* the value the call returned
    raised,       \* an exception reached the caller
    caught,       \* fetch's except clause handled an exception
    out           \* the console

vars == <<entry, resp, arg, filename, fs0, fs, pc, sp500_ohlcv, files_ret,
          result, raised, caught, out>>

\* ------------------------------------------------------------- bounds
\* Largest number of rows in a provider response or an input series.
MaxRows == 2

\* ------------------------------------------------------------- values
\* A missing cell (pandas NaN).
NaN == -1

\* Cell values a column may hold: missing or a positive number, and for the
\* closing price also zero (the base of the return calculation).
CellsOf(name) == IF name = "Close" THEN {NaN, 0, 100} ELSE {NaN, 100}

None == [kind |-> "None"]

\* The ticker that forms the second level of hierarchical column labels.
Ticker == "^GSPC"

\* Column names the provider may return, in the order it returns them.
ProviderOrder == <<"Adj Close", "Close", "Volume">>

\* Variant: the adjusted close is taken for a core column.
required_columns_AdjClose == <<"Open", "High", "Low", "Close", "Adj Close", "Volume">>

required_columns == <<"Open", "High", "Low", "Close", "Volume">>

DefaultFilename == "sp500_ohlcv_1950_to_present"

Filenames == {DefaultFilename, "test"}

\* ------------------------------------------------------------- helpers
Range(s) == {s[i] : i \in 1..Len(s)}

\* The subsequence of s at the positions in keep, in order.
RECURSIVE Pick(_, _, _)
Pick(s, keep, i) ==
    IF i > Len(s) THEN <<>>
    ELSE (IF i \in keep THEN <<s[i]>> ELSE <<>>) \o Pick(s, keep, i + 1)

\* Position of the first occurrence of x in s (x is in s).
IndexOf(s, x) == CHOOSE i \in 1..Len(s) : s[i] = x /\ \A j \in 1..(i - 1) : s[j] # x

\* DataFrame.empty: true when either axis has length 0.
empty(df) == Len(df.columns) = 0 \/ Len(df.rows) = 0

\* columns.get_level_values(0): the first level of every hierarchical label.
get_level_values(columns) == [i \in 1..Len(columns) |-> columns[i][1]]

\* The names of a single-level column index (a flat label is held as the
\* one-element tuple of its name).
FlatNames(columns) == [i \in 1..Len(columns) |-> columns[i][1]]

\* df[names]: the named columns, in the order of names.
SelectColumns(df, names) ==
    [kind |-> "df",
     columns |-> names,
     rows |-> [r \in 1..Len(df.rows) |->
                 [date |-> df.rows[r].date,
                  cells |-> [i \in 1..Len(names) |->
                               df.rows[r].cells[IndexOf(df.columns, names[i])]]]]]

\* A row whose every cell is missing.
AllNaN(row) == \A i \in 1..Len(row.cells) : row.cells[i] = NaN

\* Variant: dropna(how='any'), a row with any missing cell is removed.
dropna_any(df) ==
    [df EXCEPT !.rows = SelectSeq(df.rows, LAMBDA row :
                            \A i \in 1..Len(row.cells) : row.cells[i] # NaN)]

\* df.dropna(how='all'): rows whose every cell is missing are removed.
dropna_all(df) ==
    [df EXCEPT !.rows = SelectSeq(df.rows, LAMBDA row : ~AllNaN(row))]

\* Variant: the first-date lookup tolerates a frame without rows.
IndexRaises_Never(df) == FALSE

\* data.index[0], data.index[-1]: IndexError on a frame without rows.
IndexRaises(df) == Len(df.rows) = 0

\* ------------------------------------------------------------- Fetcher
\* isinstance(sp500_data.columns, pd.MultiIndex)
IsMultiIndex(df) == df.multi

\* Lines 19-47, the body of the try block: [ret, exc, out], exc being TRUE
\* when a statement of the block raised.
FetchBody(r) ==
    IF r.kind = "raise" THEN
        \* yf.download raised
        [ret |-> None, exc |-> TRUE, out |-> <<>>]
    ELSE IF r.kind = "malformed" THEN
        \* yf.download returned an object without the data frame interface
        [ret |-> None, exc |-> TRUE, out |-> <<>>]
    ELSE IF empty(r) THEN
        [ret |-> None, exc |-> FALSE, out |-> <<"No data retrieved.">>]
    ELSE
        LET columns == IF IsMultiIndex(r) THEN get_level_values(r.columns)
                       ELSE FlatNames(r.columns)
            sp500_data == [kind |-> "df", columns |-> columns, rows |-> r.rows]
            available_columns ==
                SelectSeq(required_columns, LAMBDA col : col \in Range(columns))
        IN  IF available_columns = <<>> THEN
                [ret |-> None, exc |-> FALSE,
                 out |-> <<"No OHLCV data found in the response.">>]
            ELSE
                LET ohlcv_data ==
                        dropna_all(SelectColumns(sp500_data, available_columns))
                IN  IF IndexRaises(ohlcv_data) THEN
                        \* ohlcv_data.index[0] raises IndexError
                        [ret |-> None, exc |-> TRUE,
                         out |-> <<"Successfully fetched">>]
                    ELSE
                        [ret |-> ohlcv_data, exc |-> FALSE,
                         out |-> <<"Successfully fetched", "Date range",
                                   "Columns">>]

\* Variant: no except clause, an exception of the block leaves the call.
fetch_sp500_ohlcv_NoExcept(r) ==
    LET pre == <<"Fetching S&P 500 OHLCV data", "This may take a moment">>
        b == FetchBody(r)
    IN  [ret |-> b.ret, raised |-> b.exc, caught |-> FALSE, out |-> pre \o b.out]

\* fetch_sp500_ohlcv: [ret, raised, caught, out].  raised: an exception
\* reaches the caller; caught: the except clause handled one.
fetch_sp500_ohlcv(r) ==
    LET pre == <<"Fetching S&P 500 OHLCV data", "This may take a moment">>
        b == FetchBody(r)
    IN  IF b.exc THEN
            [ret |-> None, raised |-> FALSE, caught |-> TRUE,
             out |-> pre \o b.out \o <<"Error fetching data">>]
        ELSE
            [ret |-> b.ret, raised |-> FALSE, caught |-> FALSE,
             out |-> pre \o b.out]

\* ------------------------------------------------------------- Analyzer
\* The cells of the column called name, top to bottom.
Column(data, name) ==
    [r \in 1..Len(data.rows) |-> data.rows[r].cells[IndexOf(data.columns, name)]]

\* Series.idxmin() / idxmax() of an all-missing column yields no date, and
\* the .date() call on it raises.
IdxRaises(col) == \A i \in 1..Len(col) : col[i] = NaN

\* (data.index[-1] - data.index[0]).days
ElapsedDays(data) == data.rows[Len(data.rows)].date - data.rows[1].date

\* The float64 quotient last / first, by class: numpy yields nan or inf on a
\* zero divisor and does not raise.
Quotient(last, first) ==
    IF last = NaN \/ first = NaN THEN "nan"
    ELSE IF first = 0 THEN (IF last = 0 THEN "nan" ELSE "inf")
    ELSE "number"

\* 1/years is a Python float division: ZeroDivisionError when years is 0.
InverseYearsRaises(data) == ElapsedDays(data) = 0

\* Lines 103-117: [exc, out].
PriceStatistics(data) ==
    LET close == Column(data, "Close")
        head == <<"PRICE STATISTICS", "First close price", "Latest close price">>
    IN  IF IdxRaises(close) THEN [exc |-> TRUE, out |-> head]
        ELSE IF InverseYearsRaises(data) THEN
            [exc |-> TRUE, out |-> head \o <<"All-time low", "All-time high">>]
        ELSE
            LET q == Quotient(close[Len(close)], close[1])
            IN  [exc |-> FALSE,
                 out |-> head \o <<"All-time low", "All-time high", "RETURNS",
                                   "Total return: " \o q,
                                   "Annualized return: " \o q>>]

\* Lines 120-127: [exc, out].
VolumeStatistics(data) ==
    IF IdxRaises(Column(data, "Volume")) THEN [exc |-> TRUE, out |-> <<>>]
    ELSE [exc |-> FALSE,
          out |-> <<"VOLUME STATISTICS", "Average daily volume",
                    "Highest volume day">>]

\* Lines 130-133: one line per column.
DataQuality(data) ==
    <<"DATA QUALITY">> \o [i \in 1..Len(data.columns) |-> "missing values"]

\* analyze_ohlcv_data: [raised, out].  Nothing is caught: an exception of
\* any statement reaches the caller.
analyze_ohlcv_data(data) ==
    IF data = None THEN [raised |-> FALSE, out |-> <<>>]
    ELSE
        LET banner == <<"S&P 500 OHLCV DATA ANALYSIS", "Total trading days">>
        IN  IF IndexRaises(data) THEN [raised |-> TRUE, out |-> banner]
            ELSE
                LET info == banner \o <<"Date range", "Years covered">>
                    p == IF "Close" \in Range(data.columns)
                         THEN PriceStatistics(data)
                         ELSE [exc |-> FALSE, out |-> <<>>]
                    v == IF "Volume" \in Range(data.columns)
                         THEN VolumeStatistics(data)
                         ELSE [exc |-> FALSE, out |-> <<>>]
                IN  IF p.exc THEN [raised |-> TRUE, out |-> info \o p.out]
                    ELSE IF v.exc THEN
                        [raised |-> TRUE, out |-> info \o p.out \o v.out]
                    ELSE
                        [raised |-> FALSE,
                         out |-> info \o p.out \o v.out \o DataQuality(data)]

\* ------------------------------------------------------------- Persister
\* The file system: fs.dir is what the name "data" refers to ("absent", a
\* directory "dir", or a regular "file"); fs.files maps every path under
\* data/ to its content.
NoFile == [kind |-> "nofile"]

Path(name, ext) == <<"data", name, ext>>

Paths == {Path(n, e) : n \in Filenames \cup {"other"}, e \in {".csv", ".xlsx"}}

\* A written cell: a missing value is written as an empty field.
Field(c) == IF c = NaN THEN <<>> ELSE <<c>>

\* The table as both writers lay it out: a header row, then one line per
\* row, the index first (index=True is the default of to_csv and to_excel).
Layout(data) ==
    [header |-> <<"Date">> \o data.columns,
     lines |-> [r \in 1..Len(data.rows) |->
                  <<data.rows[r].date>> \o
                  [i \in 1..Len(data.columns) |-> Field(data.rows[r].cells[i])]]]

\* Variant: to_csv(path, index=False), the date index is not written.
to_csv_NoIndex(data, path, f) ==
    [f EXCEPT !.files[path] =
        [kind |-> "csv",
         table |-> [header |-> data.columns,
                    lines |-> [r \in 1..Len(data.rows) |->
                                 [i \in 1..Len(data.columns) |->
                                    Field(data.rows[r].cells[i])]]]]]

\* data.to_csv(path)
to_csv(data, path, f) ==
    [f EXCEPT !.files[path] = [kind |-> "csv", table |-> Layout(data)]]

\* data.to_excel(path)
to_excel(data, path, f) ==
    [f EXCEPT !.files[path] = [kind |-> "xlsx", table |-> Layout(data)]]

\* os.makedirs("data", exist_ok=True) raises when "data" is a regular file
\* or when the operating system refuses the creation.
MakedirsRaises(f, fault) == f.dir = "file" \/ fault = "makedirs"

makedirs(f) == [f EXCEPT !.dir = "dir"]

\* Lines 65-80, the body of the try block: [ret, exc, out, fs].
SaveBody(data, name, f, fault) ==
    LET csv_path == Path(name, ".csv")
        excel_path == Path(name, ".xlsx")
        f1 == to_csv(data, csv_path, f)
        f2 == to_excel(data, excel_path, f1)
    IN  IF fault = "to_csv" THEN
            [ret |-> None, exc |-> TRUE, out |-> <<>>, fs |-> f]
        ELSE IF fault = "to_excel" THEN
            [ret |-> None, exc |-> TRUE, out |-> <<"Saved CSV">>, fs |-> f1]
        ELSE IF fault = "getsize" THEN
            [ret |-> None, exc |-> TRUE,
             out |-> <<"Saved CSV", "Saved Excel">>, fs |-> f2]
        ELSE
            [ret |-> [kind |-> "paths", csv |-> csv_path, excel |-> excel_path],
             exc |-> FALSE,
             out |-> <<"Saved CSV", "Saved Excel", "File sizes">>, fs |-> f2]

\* Variant: the directory is created before the None check.
save_data_MakedirsFirst(data, name, f, fault) ==
    IF MakedirsRaises(f, fault) THEN
        [ret |-> None, raised |-> TRUE, out |-> <<>>, fs |-> f]
    ELSE IF data = None THEN
        [ret |-> None, raised |-> FALSE, out |-> <<"No data to save.">>,
         fs |-> makedirs(f)]
    ELSE
        LET b == SaveBody(data, name, makedirs(f), fault)
        IN  IF b.exc THEN
                [ret |-> [kind |-> "none_pair"], raised |-> FALSE,
                 out |-> b.out \o <<"Error saving files">>, fs |-> b.fs]
            ELSE
                [ret |-> b.ret, raised |-> FALSE, out |-> b.out, fs |-> b.fs]

\* save_data: [ret, raised, out, fs].  The bare return yields None; the
\* except clause yields the pair (None, None).
save_data(data, name, f, fault) ==
    IF data = None THEN
        [ret |-> None, raised |-> FALSE, out |-> <<"No data to save.">>, fs |-> f]
    ELSE IF MakedirsRaises(f, fault) THEN
        [ret |-> None, raised |-> TRUE, out |-> <<>>, fs |-> f]
    ELSE
        LET b == SaveBody(data, name, makedirs(f), fault)
        IN  IF b.exc THEN
                [ret |-> [kind |-> "none_pair"], raised |-> FALSE,
                 out |-> b.out \o <<"Error saving files">>, fs |-> b.fs]
            ELSE
                [ret |-> b.ret, raised |-> FALSE, out |-> b.out, fs |-> b.fs]

Faults == {"none", "makedirs", "to_csv", "to_excel", "getsize"}

\* ------------------------------------------------------------- inputs
\* The column selections a response may carry, in provider order.
ColumnChoices == {Pick(ProviderOrder, keep, 1) : keep \in SUBSET (1..Len(ProviderOrder))}

\* The rows over the columns named by c.
RowSet(c) == {cells \in [1..Len(c) -> {NaN, 0, 100}] :
                \A i \in 1..Len(c) : cells[i] \in CellsOf(c[i])}

\* Every row sequence of at most MaxRows rows over the columns c; the index
\* is strictly increasing (row i carries day i).
RowsOver(c) == UNION {[1..k -> RowSet(c)] : k \in 0..MaxRows}

Dated(rows) == [i \in 1..Len(rows) |-> [date |-> i, cells |-> rows[i]]]

\* Hierarchical labels (name, ticker) over the names of cols.
Hierarchical(cols) == [i \in 1..Len(cols) |-> <<cols[i], Ticker>>]

\* Single-level labels over the names of cols.
Flat(cols) == [i \in 1..Len(cols) |-> <<cols[i]>>]

\* What yf.download may produce: an exception, an object that is no data
\* frame, or a data frame with flat or hierarchical column labels.
Frames(multi) ==
    UNION {{[kind |-> "df", multi |-> multi,
             columns |-> IF multi THEN Hierarchical(c) ELSE Flat(c),
             rows |-> Dated(rs)] : rs \in RowsOver(c)} : c \in ColumnChoices}

Responses ==
    {[kind |-> "raise"], [kind |-> "malformed"]} \cup Frames(FALSE) \cup Frames(TRUE)

\* What a caller may pass as data to analyze_ohlcv_data and save_data.
Series ==
    UNION {{[kind |-> "df", columns |-> c, rows |-> Dated(rs)] :
              rs \in RowsOver(c)} : c \in ColumnChoices}

Arguments == {None} \cup Series

\* The states of the file system a call may start in: "data" absent, an
\* empty directory, a directory holding an unrelated file, a regular file.
Stale == [kind |-> "csv", table |-> [header |-> <<"Date">>, lines |-> <<>>]]

EmptyFs == [dir |-> "absent", files |-> [q \in Paths |-> NoFile]]

InitialFs ==
    {[EmptyFs EXCEPT !.dir = d] : d \in {"absent", "dir", "file"}}
    \cup {[dir |-> "dir",
           files |-> [q \in Paths |-> IF q = Path("other", ".csv") THEN Stale ELSE NoFile]]}

Unset == [kind |-> "unset"]

\* ------------------------------------------------------------- state machine
Init ==
    /\ entry \in {"main", "fetch", "analyze", "save"}
    /\ resp \in (IF entry \in {"main", "fetch"} THEN Responses ELSE {Unset})
    /\ arg \in (IF entry \in {"analyze", "save"} THEN Arguments ELSE {Unset})
    /\ filename \in (IF entry = "save" THEN Filenames ELSE {DefaultFilename})
    /\ fs0 \in (IF entry \in {"main", "save"} THEN InitialFs ELSE {EmptyFs})
    /\ fs = fs0
    /\ pc = "start"
    /\ sp500_ohlcv = Unset
    /\ files_ret = Unset
    /\ result = Unset
    /\ raised = FALSE
    /\ caught = FALSE
    /\ out = <<>>

\* A direct call fetch_sp500_ohlcv().
CallFetch ==
    /\ entry = "fetch" /\ pc = "start"
    /\ LET f == fetch_sp500_ohlcv(resp)
       IN  /\ result' = f.ret
           /\ raised' = f.raised
           /\ caught' = f.caught
           /\ out' = out \o f.out
           /\ pc' = IF f.raised THEN "crashed" ELSE "done"
    /\ UNCHANGED <<entry, resp, arg, filename, fs0, sp500_ohlcv, files_ret, fs>>

\* A direct call analyze_ohlcv_data(arg).
CallAnalyze ==
    /\ entry = "analyze" /\ pc = "start"
    /\ LET a == analyze_ohlcv_data(arg)
       IN  /\ result' = None
           /\ raised' = a.raised
           /\ out' = out \o a.out
           /\ pc' = IF a.raised THEN "crashed" ELSE "done"
    /\ UNCHANGED <<entry, resp, arg, filename, fs0, sp500_ohlcv, files_ret, caught, fs>>

\* A direct call save_data(arg, filename).
CallSave ==
    /\ entry = "save" /\ pc = "start"
    /\ \E fault \in Faults :
         LET s == save_data(arg, filename, fs, fault)
         IN  /\ result' = s.ret
             /\ raised' = s.raised
             /\ out' = out \o s.out
             /\ fs' = s.fs
             /\ pc' = IF s.raised THEN "crashed" ELSE "done"
    /\ UNCHANGED <<entry, resp, arg, filename, fs0, sp500_ohlcv, files_ret, caught>>

\* main, line 143: sp500_ohlcv = fetch_sp500_ohlcv(start_date="1950-01-01")
MainFetch ==
    /\ entry = "main" /\ pc = "start"
    /\ LET f == fetch_sp500_ohlcv(resp)
       IN  /\ sp500_ohlcv' = f.ret
           /\ raised' = f.raised
           /\ caught' = f.caught
           /\ out' = out \o <<"Starting S&P 500 OHLCV Data Collection">> \o f.out
           /\ pc' = IF f.raised THEN "crashed" ELSE "fetched"
    /\ UNCHANGED <<entry, resp, arg, filename, fs0, files_ret, result, fs>>

\* Variant: main analyzes without testing the fetch result for None.
MainAnalyze_NoCheck ==
    /\ entry = "main" /\ pc = "fetched"
    /\ LET a == analyze_ohlcv_data(sp500_ohlcv)
       IN  /\ raised' = a.raised
           /\ out' = out \o a.out
           /\ pc' = IF a.raised THEN "crashed" ELSE "analyzed"
    /\ UNCHANGED <<entry, resp, arg, filename, fs0, sp500_ohlcv, files_ret, result, caught, fs>>

\* main, lines 145-147: analyze_ohlcv_data(sp500_ohlcv)
MainAnalyze ==
    /\ entry = "main" /\ pc = "fetched"
    /\ sp500_ohlcv # None
    /\ LET a == analyze_ohlcv_data(sp500_ohlcv)
       IN  /\ raised' = a.raised
           /\ out' = out \o a.out
           /\ pc' = IF a.raised THEN "crashed" ELSE "analyzed"
    /\ UNCHANGED <<entry, resp, arg, filename, fs0, sp500_ohlcv, files_ret, result, caught, fs>>

\* main, lines 150-151: csv_file, excel_file = save_data(sp500_ohlcv)
MainSave ==
    /\ entry = "main" /\ pc = "analyzed"
    /\ \E fault \in Faults :
         LET s == save_data(sp500_ohlcv, DefaultFilename, fs, fault)
         IN  /\ files_ret' = s.ret
             /\ out' = out \o <<"Saving data...">> \o s.out
             /\ fs' = s.fs
             \* unpacking the None of the bare return raises TypeError
             /\ raised' = (s.raised \/ s.ret = None)
             /\ pc' = IF s.raised \/ s.ret = None THEN "crashed" ELSE "saved"
    /\ UNCHANGED <<entry, resp, arg, filename, fs0, sp500_ohlcv, result, caught>>

\* main, lines 153-166: the sample rows, the final summary, the return.
MainSummary ==
    /\ entry = "main" /\ pc = "saved"
    /\ IF IndexRaises(sp500_ohlcv) THEN
           /\ out' = out \o <<"SAMPLE DATA", "SUCCESS!", "Downloaded",
                              "Files saved in 'data' folder">>
           /\ raised' = TRUE
           /\ pc' = "crashed"
           /\ UNCHANGED result
       ELSE
           /\ out' = out \o <<"SAMPLE DATA", "SUCCESS!", "Downloaded",
                              "Files saved in 'data' folder", "Data spans">>
           /\ result' = sp500_ohlcv
           /\ pc' = "done"
           /\ UNCHANGED raised
    /\ UNCHANGED <<entry, resp, arg, filename, fs0, sp500_ohlcv, files_ret, caught, fs>>

\* main, lines 167-169: the fetch failed.
MainFail ==
    /\ entry = "main" /\ pc = "fetched"
    /\ sp500_ohlcv = None
    /\ out' = out \o <<"Failed to fetch S&P 500 data">>
    /\ result' = None
    /\ pc' = "done"
    /\ UNCHANGED <<entry, resp, arg, filename, fs0, sp500_ohlcv, files_ret, raised, caught, fs>>

Next ==
    \/ CallFetch
    \/ CallAnalyze
    \/ CallSave
    \/ MainFetch
    \/ MainAnalyze
    \/ MainSave
    \/ MainSummary
    \/ MainFail

Spec == Init /\ [][Next]_vars

\* ------------------------------------------------------------- properties
\* The canonical column set.
OHLCV == {"Open", "High", "Low", "Close", "Volume"}

\* The first-level names of the response's column labels.
Level0(r) == {r.columns[i][1] : i \in 1..Len(r.columns)}

\* The response's cell in row k under the column whose first level is name.
RespCell(r, k, name) ==
    r.rows[k].cells[CHOOSE i \in 1..Len(r.columns) : r.columns[i][1] = name]

\* Row k of the response holds a value in some column among names.
HasValueIn(r, k, names) ==
    \E i \in 1..Len(r.columns) :
        r.columns[i][1] \in names /\ r.rows[k].cells[i] # NaN

Dates(df) == {df.rows[k].date : k \in 1..Len(df.rows)}

Printed(line) == \E i \in 1..Len(out) : out[i] = line

\* The fetch call has returned to its caller, with FetchValue.
FetchReturned ==
    \/ entry = "fetch" /\ pc = "done"
    \/ entry = "main" /\ pc = "fetched"

FetchValue == IF entry = "fetch" THEN result ELSE sp500_ohlcv

\* C1: fetch_sp500_ohlcv never lets an exception reach its caller: whatever
\* the provider does, the call returns a series or None, and it returns None
\* whenever an exception was raised inside it.
C1_FetchNeverRaises ==
    /\ (entry = "fetch" /\ pc # "start") => (pc = "done" /\ ~raised)
    /\ (entry = "main" /\ pc # "start" /\ sp500_ohlcv = Unset) => FALSE
    /\ (entry = "main" /\ pc = "crashed") => sp500_ohlcv \notin {None, Unset}
    /\ FetchReturned =>
          /\ ~raised
          /\ FetchValue = None \/ FetchValue.kind = "df"
          /\ (caught \/ resp.kind \in {"raise", "malformed"}) => FetchValue = None

C1_Witness ==
    /\ entry = "fetch" /\ pc = "done"
    /\ resp.kind = "raise" /\ caught /\ result = None

\* C2 as stated: for a response with a row holding some value, the returned
\* series excludes exactly the rows empty in every column of the response
\* and has no column outside the canonical set.
C2_Original ==
    (/\ FetchReturned
     /\ resp.kind = "df"
     /\ \E k \in 1..Len(resp.rows) : HasValueIn(resp, k, Level0(resp))
     /\ FetchValue # None)
    => /\ Dates(FetchValue) =
            {resp.rows[k].date : k \in {j \in 1..Len(resp.rows) :
                                          HasValueIn(resp, j, Level0(resp))}}
       /\ Range(FetchValue.columns) \subseteq OHLCV

\* C2 as amended: a returned series excludes exactly the rows that are empty
\* in every canonical column of the response, keeps the other rows in order
\* with their canonical cells unchanged, and its columns are the canonical
\* columns of the response.
C2_Amended ==
    (FetchReturned /\ FetchValue # None)
    => /\ resp.kind = "df"
       /\ Range(FetchValue.columns) \subseteq OHLCV
       /\ Range(FetchValue.columns) = Level0(resp) \cap OHLCV
       /\ Dates(FetchValue) =
            {resp.rows[k].date : k \in {j \in 1..Len(resp.rows) :
                                          HasValueIn(resp, j, OHLCV)}}
       /\ \A k \in 1..Len(FetchValue.rows) :
            /\ k > 1 => FetchValue.rows[k - 1].date < FetchValue.rows[k].date
            /\ \A i \in 1..Len(FetchValue.columns) :
                 \E j \in 1..Len(resp.rows) :
                    /\ resp.rows[j].date = FetchValue.rows[k].date
                    /\ FetchValue.rows[k].cells[i] =
                          RespCell(resp, j, FetchValue.columns[i])

\* A series was returned from which a row holding only a non-canonical
\* value was removed.
C2_Witness ==
    /\ FetchReturned /\ FetchValue # None
    /\ \E k \in 1..Len(resp.rows) :
          /\ HasValueIn(resp, k, Level0(resp))
          /\ resp.rows[k].date \notin Dates(FetchValue)

\* C3: fetch_sp500_ohlcv returns None when the response is empty and when
\* its flattened column names include none of the canonical columns.
C3_AbsentWithoutData ==
    (/\ FetchReturned
     /\ resp.kind = "df"
     /\ \/ Len(resp.rows) = 0
        \/ Len(resp.columns) = 0
        \/ Level0(resp) \cap OHLCV = {})
    => FetchValue = None

\* Hierarchical labels, rows with values, but only the adjusted close.
C3_Witness ==
    /\ FetchReturned /\ resp.kind = "df" /\ resp.multi
    /\ Level0(resp) = {"Adj Close"}
    /\ \E k \in 1..Len(resp.rows) : HasValueIn(resp, k, Level0(resp))
    /\ FetchValue = None
    /\ Printed("No OHLCV data found in the response.")

Banner == "S&P 500 OHLCV DATA ANALYSIS"

\* C4: in main the Analyzer and the Persister run only after a non-absent
\* fetch result, the Analyzer completing before the Persister starts; on an
\* absent result neither does any work, the file system is untouched, the
\* failure message is printed last and main returns None.
C4_MainOrder ==
    entry = "main" =>
      /\ (Printed(Banner) \/ Printed("Saving data...") \/ fs # fs0)
            => sp500_ohlcv \notin {None, Unset}
      /\ \A j \in 1..Len(out) :
            out[j] = "Saving data..." =>
               \E i \in 1..(j - 1) : out[i] = "DATA QUALITY"
      /\ (pc \in {"analyzed", "saved"}) => Printed("DATA QUALITY")
      /\ pc = "saved" => Printed("Saving data...")
      /\ sp500_ohlcv = None =>
            /\ pc \in {"fetched", "done"}
            /\ files_ret = Unset
            /\ ~raised
            /\ pc = "done" =>
                  /\ result = None
                  /\ out[Len(out)] = "Failed to fetch S&P 500 data"

\* main ended on an absent fetch result for an empty response.
C4_Witness ==
    /\ entry = "main" /\ pc = "done"
    /\ resp.kind = "df" /\ Len(resp.rows) = 0
    /\ sp500_ohlcv = None /\ result = None
    /\ Printed("Failed to fetch S&P 500 data")

\* C5 as stated: analyze_ohlcv_data, given a series with a Close column
\* (no value missing) whose first and last dates coincide or whose first
\* close is 0, does not raise and reports the annualized return as
\* undefined.
C5_AnalyzeGuardsUndefined ==
    (/\ entry = "analyze" /\ pc # "start"
     /\ arg # None
     /\ Len(arg.rows) > 0
     /\ "Close" \in Range(arg.columns)
     /\ \A k \in 1..Len(arg.rows) : \A i \in 1..Len(arg.columns) :
           arg.rows[k].cells[i] # NaN
     /\ \/ ElapsedDays(arg) = 0
        \/ Column(arg, "Close")[1] = 0)
    => /\ ~raised
       /\ \/ Printed("Annualized return: nan")
          \/ Printed("Annualized return: inf")
          \/ Printed("Annualized return: N/A")

\* C6 as stated: save_data never lets an exception reach its caller.
C6_SaveNeverRaises ==
    (entry = "save" /\ pc # "start") => (pc = "done" /\ ~raised)

\* C7: save_data(None) returns None at once and leaves the file system as
\* it was: no directory and no file is created.
C7_AbsentInputNoOutput ==
    (entry = "save" /\ arg = None /\ pc # "start")
    => /\ pc = "done"
       /\ ~raised
       /\ result = None
       /\ fs = fs0
       /\ out = <<"No data to save.">>

C7_Witness ==
    /\ entry = "save" /\ arg = None /\ pc = "done"
    /\ fs0.dir = "absent" /\ fs.dir = "absent"

CsvPath == Path(filename, ".csv")

ExcelPath == Path(filename, ".xlsx")

Written(q) == fs.files[q] # NoFile

\* C8 as stated: main prints the success summary only when both output
\* files were written and save_data returned their paths, and no run leaves
\* only one of the two files written.
C8_NoPartialSuccess ==
    entry = "main" =>
      /\ Printed("SUCCESS!") =>
            /\ files_ret # Unset /\ files_ret.kind = "paths"
            /\ Written(CsvPath) /\ Written(ExcelPath)
      /\ pc \in {"done", "crashed"} => (Written(CsvPath) <=> Written(ExcelPath))

\* The value of a written field when read back.
ReadField(f) == IF f = <<>> THEN NaN ELSE f[1]

\* The file at q holds the table of data: the header is the index name
\* followed by the columns, and line r is the date followed by the cells
\* of row r.
Holds(q, data) ==
    LET t == fs.files[q].table
    IN  /\ t.header = <<"Date">> \o data.columns
        /\ Len(t.lines) = Len(data.rows)
        /\ \A r \in 1..Len(data.rows) :
              /\ Len(t.lines[r]) = Len(data.columns) + 1
              /\ t.lines[r][1] = data.rows[r].date
              /\ \A i \in 1..Len(data.columns) :
                    ReadField(t.lines[r][i + 1]) = data.rows[r].cells[i]

\* C9: save_data on a non-empty series and base name b, without an I/O
\* error, writes exactly data/b.csv and data/b.xlsx, both holding the rows
\* and columns of the series behind the date index, and returns the two
\* paths, csv first.
C9_SaveWritesBoth ==
    (/\ entry = "save" /\ pc = "done"
     /\ arg # None
     /\ Len(arg.rows) > 0
     /\ ~Printed("Error saving files"))
    => /\ result = [kind |-> "paths", csv |-> <<"data", filename, ".csv">>,
                    excel |-> <<"data", filename, ".xlsx">>]
       /\ fs.dir = "dir"
       /\ fs.files[CsvPath].kind = "csv" /\ Holds(CsvPath, arg)
       /\ fs.files[ExcelPath].kind = "xlsx" /\ Holds(ExcelPath, arg)
       /\ \A q \in Paths \ {CsvPath, ExcelPath} : fs.files[q] = fs0.files[q]

\* Two rows, one of them with a missing cell, saved as "test" beside an
\* unrelated file, into a directory that did not exist.
C9_Witness ==
    /\ entry = "save" /\ pc = "done" /\ filename = "test"
    /\ arg # None /\ Len(arg.rows) = 2 /\ Len(arg.columns) = 2
    /\ arg.rows[1].cells[1] = NaN
    /\ result # None /\ result.kind = "paths"
    /\ fs0.dir = "absent" /\ fs.dir = "dir"
    /\ Written(CsvPath) /\ Written(ExcelPath)

\* Every row of the response is empty in all its canonical columns, of
\* which there is at least one.
OnlyEmptyCanonicalRows(r) ==
    /\ r.kind = "df"
    /\ Len(r.rows) > 0
    /\ Level0(r) \cap OHLCV # {}
    /\ \A k \in 1..Len(r.rows) : ~HasValueIn(r, k, OHLCV)

\* C10: a non-absent fetch result has at least one row; a response whose
\* rows are all empty in the canonical columns makes the first-date lookup
\* fail after the row drop, and the call returns None through the except
\* clause.
C10_ResultHasRows ==
    FetchReturned =>
      /\ FetchValue # None => Len(FetchValue.rows) >= 1
      /\ OnlyEmptyCanonicalRows(resp) =>
            /\ FetchValue = None
            /\ caught
            /\ Printed("Successfully fetched")
            /\ Printed("Error fetching data")

C10_Witness ==
    /\ entry = "fetch" /\ pc = "done"
    /\ OnlyEmptyCanonicalRows(resp)
    /\ \E k \in 1..Len(resp.rows) : HasValueIn(resp, k, Level0(resp))
    /\ result = None /\ caught
====
